---- MODULE Spec2Model ----
(***************************************************************************)
(* linkedinHunter: the harvest loop of LinkedInHarvester, its name         *)
(* cleaning and e-mail inference, and main()'s interrupt handling.         *)
(*                                                                         *)
(* A Python str is a sequence of one-character strings.                    *)
(* Characters that cannot be typed in a string literal here are written as *)
(* tokens: EnDash (U+2013), the combining marks U+0301 and U+0303, and the *)
(* ASCII white space U+000B and U+001C to U+001F.                          *)
(* The alphabet is ASCII plus the accented letters of NFKD below.          *)
(***************************************************************************)
EXTENDS Integers, Sequences, FiniteSets, TLC

VARIABLES
    email_format,     \* self.email_format (<<>>: None or "", both falsy)
    found_employees,  \* self.found_employees: dict in insertion order, seq of [key, value]
    total_requests,   \* self.total_requests
    results_file,     \* the file self.output_file: json, it parses as the dump of items;
                      \* partial, it is the unfinished text of a dump that holds items
    metrics_file,     \* the file args.metrics
    pc,               \* position of the process in main()/harvest()
    role,             \* index into COMMON_ROLES of the current query
    page,             \* the page loop variable, 0..9
    results,          \* number of items of the current response still to be iterated;
                      \* the items, which the API decides, are drawn as the loop takes them
    status,           \* outcome of the last request sent
    issued,           \* history: number of requests sent on the session
    query_starts,     \* history: start offsets sent for the current query
    queried,          \* history: role terms for which a request was sent, in order
    passed_links,     \* history: links of returned items whose name passed the filter
    last_item,        \* history: the item the item loop took last
    interrupted,      \* history: KeyboardInterrupt was raised
    full_name,        \* argument of a direct _generate_emails call
    template,         \* parts of the e-mail template of that call
    emails            \* its return value

vars == <<email_format, found_employees, total_requests, results_file, metrics_file,
          pc, role, page, results, status, issued, query_starts, queried,
          passed_links, last_item, interrupted, full_name, template, emails>>

emailVars == <<full_name, template, emails>>

----------------------------------------------------------------------------
(* Bounds of the model *)

\* number of role terms of COMMON_ROLES that are queried
NumRoles == 2

\* largest number of items in one response (the API is asked for num = 10)
MaxItems == 2

(* Program constants *)

\* for page in range(10)
MaxPages == 10

\* "num": 10, and start = (page * 10) + 1
PageSize == 10

\* len(name) > 60
MaxNameLen == 60

----------------------------------------------------------------------------
(* Characters and strings *)

EnDash == "<U+2013>"
Acute == "<U+0301>"
Tilde == "<U+0303>"

Uppers == <<"A", "B", "C", "D", "E", "F", "G", "H", "I", "J", "K", "L", "M",
            "N", "O", "P", "Q", "R", "S", "T", "U", "V", "W", "X", "Y", "Z">>
Lowers == <<"a", "b", "c", "d", "e", "f", "g", "h", "i", "j", "k", "l", "m",
            "n", "o", "p", "q", "r", "s", "t", "u", "v", "w", "x", "y", "z">>
Digits == {"0", "1", "2", "3", "4", "5", "6", "7", "8", "9"}

Range(s) == {s[i] : i \in 1..Len(s)}

\* str.isspace for the alphabet (str.strip, str.split); also the regex class \s
IsSpace(c) ==
    c \in {" ", "\t", "\n", "\r", "\f", "<U+000B>",
           "<U+001C>", "<U+001D>", "<U+001E>", "<U+001F>"}

\* unicodedata.combining(c) != 0
combining(c) == c \in {Acute, Tilde}

\* unicodedata.normalize("NFKD", c) for one character
NFKD(c) ==
    CASE c = "é" -> <<"e", Acute>>
      [] c = "É" -> <<"E", Acute>>
      [] c = "á" -> <<"a", Acute>>
      [] c = "í" -> <<"i", Acute>>
      [] c = "ó" -> <<"o", Acute>>
      [] c = "ñ" -> <<"n", Tilde>>
      [] c = "Ñ" -> <<"N", Tilde>>
      [] OTHER -> <<c>>

\* str.lower for one character
LowerChar(c) ==
    IF \E i \in 1..26 : Uppers[i] = c
    THEN Lowers[CHOOSE i \in 1..26 : Uppers[i] = c]
    ELSE IF c = "É" THEN "é" ELSE IF c = "Ñ" THEN "ñ" ELSE c

\* str.lower
lower(s) == [i \in 1..Len(s) |-> LowerChar(s[i])]

RECURSIVE Flatten(_)
\* "".join(parts)
Flatten(parts) ==
    IF parts = <<>> THEN <<>> ELSE Head(parts) \o Flatten(Tail(parts))

\* s[i-1:j-1] with 1-based inclusive bounds, empty when i > j
Slice(s, i, j) == IF i > j THEN <<>> ELSE SubSeq(s, i, j)

\* s.startswith(old, i-1)
StartsWithAt(s, old, i) ==
    /\ i + Len(old) - 1 <= Len(s)
    /\ \A k \in 1..Len(old) : s[i + k - 1] = old[k]

\* old in s
Contains(s, old) == \E i \in 1..(Len(s) + 1) : StartsWithAt(s, old, i)

RECURSIVE ReplaceFrom(_, _, _, _)
ReplaceFrom(s, old, new, i) ==
    IF i > Len(s) THEN <<>>
    ELSE IF StartsWithAt(s, old, i)
         THEN new \o ReplaceFrom(s, old, new, i + Len(old))
         ELSE <<s[i]>> \o ReplaceFrom(s, old, new, i + 1)

\* s.replace(old, new) for a non-empty old
Replace(s, old, new) == ReplaceFrom(s, old, new, 1)

\* s.strip()
strip(s) ==
    LET keep == {i \in 1..Len(s) : ~IsSpace(s[i])}
    IN IF keep = {} THEN <<>>
       ELSE Slice(s, CHOOSE i \in keep : \A j \in keep : i <= j,
                     CHOOSE i \in keep : \A j \in keep : i >= j)

RECURSIVE SplitFrom(_, _, _)
SplitFrom(s, i, word) ==
    IF i > Len(s) THEN (IF word = <<>> THEN <<>> ELSE <<word>>)
    ELSE IF IsSpace(s[i])
         THEN (IF word = <<>> THEN <<>> ELSE <<word>>) \o SplitFrom(s, i + 1, <<>>)
         ELSE SplitFrom(s, i + 1, Append(word, s[i]))

\* s.split()
split(s) == SplitFrom(s, 1, <<>>)

----------------------------------------------------------------------------
(* LinkedInHarvester: the pure helpers *)

\* _remove_accents: NFKD, then drop the combining marks
_remove_accents(value) ==
    IF value = <<>> THEN <<>>
    ELSE SelectSeq(Flatten([i \in 1..Len(value) |-> NFKD(value[i])]),
                   LAMBDA c : ~combining(c))

LinkedInWord == <<"l", "i", "n", "k", "e", "d", "i", "n">>

\* The regex \s?[|\-]\s?LinkedIn.*$ (IGNORECASE) matched at position i of s:
\* 0 when it does not match there, else the position after the match.
SuffixMatchEnd(s, i) ==
    LET n == Len(s)
        sep == IF IsSpace(s[i]) THEN i + 1 ELSE i
        word == IF sep + 1 <= n /\ IsSpace(s[sep + 1]) THEN sep + 2 ELSE sep + 1
        rest == word + Len(LinkedInWord)
        newlines == {k \in rest..n : s[k] = "\n"}
    IN IF /\ sep <= n
          /\ s[sep] \in {"|", "-"}
          /\ StartsWithAt(lower(s), LinkedInWord, word)
          /\ newlines \subseteq {n}
       THEN (IF newlines = {} THEN n + 1 ELSE n)
       ELSE 0

\* re.sub(r"\s?[|\-]\s?LinkedIn.*$", "", title, flags=re.IGNORECASE)
StripLinkedInSuffix(title) ==
    LET hits == {i \in 1..Len(title) : SuffixMatchEnd(title, i) # 0}
    IN IF hits = {} THEN title
       ELSE LET i == CHOOSE h \in hits : \A g \in hits : h <= g
            IN Slice(title, 1, i - 1) \o Slice(title, SuffixMatchEnd(title, i), Len(title))

\* re.split(r"\s[–-]\s", cleaned)[0]
FirstSegment(cleaned) ==
    LET hits == {i \in 1..(Len(cleaned) - 2) :
                    /\ IsSpace(cleaned[i])
                    /\ cleaned[i + 1] \in {EnDash, "-"}
                    /\ IsSpace(cleaned[i + 2])}
    IN IF hits = {} THEN cleaned
       ELSE Slice(cleaned, 1, (CHOOSE h \in hits : \A g \in hits : h <= g) - 1)

\* _clean_name
_clean_name(title) == strip(FirstSegment(StripLinkedInSuffix(title)))

PH_first == <<"{", "f", "i", "r", "s", "t", "}">>
PH_last == <<"{", "l", "a", "s", "t", "}">>
PH_f == <<"{", "f", "}">>
PH_l == <<"{", "l", "}">>

\* re.sub(r"[^a-z0-9\s]", "", self._remove_accents(full_name).lower()).split()
name_parts(name) ==
    split(SelectSeq(lower(_remove_accents(name)),
                    LAMBDA c : c \in Range(Lowers) \/ c \in Digits \/ IsSpace(c)))

\* the four email.replace calls for one surname candidate
FillFormat(fmt, first_name, last) ==
    Replace(Replace(Replace(Replace(fmt, PH_first, first_name), PH_last, last),
                    PH_f, <<first_name[1]>>),
            PH_l, <<last[1]>>)

\* mutant: the single-candidate policy, the last token as surname
candidate_surnames_last(parts) == <<parts[Len(parts)]>>

\* candidate_surnames
candidate_surnames(parts) ==
    IF Len(parts) = 2 THEN <<parts[2]>> ELSE <<parts[2], parts[3]>>

RECURSIVE GeneratedList(_, _, _, _)
\* the loop over candidate_surnames building generated_list
GeneratedList(fmt, first_name, cands, acc) ==
    IF cands = <<>> THEN acc
    ELSE LET last == Head(cands)
             email == FillFormat(fmt, first_name, last)
         IN IF last = <<>> THEN GeneratedList(fmt, first_name, Tail(cands), acc)
            ELSE GeneratedList(fmt, first_name, Tail(cands),
                               IF email \in Range(acc) THEN acc ELSE Append(acc, email))

\* _generate_emails, with self.email_format as first argument
_generate_emails(fmt, name) ==
    IF fmt = <<>> THEN <<>>
    ELSE LET parts == name_parts(name)
         IN IF Len(parts) < 2 THEN <<>>
            ELSE GeneratedList(fmt, parts[1], candidate_surnames(parts), <<>>)

----------------------------------------------------------------------------
(* Inputs of the harvest run *)

\* COMMON_ROLES (the "Coverage ES" list), its first terms
RoleTerms == <<"", "Gestor", "Gestor Comercial", "Director de Oficina", "Subdirector">>

COMMON_ROLES == SubSeq(RoleTerms, 1, NumRoles)

Link_jane == "https://es.linkedin.com/in/jane-doe"
Link_maria == "https://es.linkedin.com/in/maria-garcia"
Link_dir == "https://es.linkedin.com/pub/dir/acme"

Title_jane ==
    <<"J", "a", "n", "e", " ", "D", "o", "e", " ", "|", " ", "L", "i", "n", "k", "e", "d", "I", "n">>
Title_maria ==
    <<"M", "a", "r", "í", "a", " ", "G", "a", "r", "c", "í", "a", " ", "L", "ó", "p", "e", "z", " ", "<U+2013>", " ", "E", "n", "g", "i", "n", "e", "e", "r", " ", "|", " ", "L", "i", "n", "k", "e", "d", "I", "n">>
Title_listing ==
    <<"5", "0", "0", "+", " ", "A", "c", "m", "e", " ", "P", "R", "O", "F", "I", "L", "E", "S", " ", "|", " ", "L", "i", "n", "k", "e", "d", "I", "n">>
LinkedInTail ==
    <<" ", "|", " ", "L", "i", "n", "k", "e", "d", "I", "n">>

\* a title whose cleaned name is n letters long
Title_of_length(n) == [i \in 1..n |-> "x"] \o LinkedInTail

Snippet_jane ==
    <<"H", "R", " ", "M", "a", "n", "a", "g", "e", "r", "\n", "A", "c", "m", "e">>
Snippet_acme ==
    <<"A", "c", "m", "e">>

Format_f_last ==
    <<"{", "f", "}", "{", "l", "a", "s", "t", "}", "@", "e", "x", "a", "m", "p", "l", "e", ".", "c", "o", "m">>

\* the items a response of the search API is made of
Items ==
    { [link |-> Link_jane, title |-> Title_jane, snippet |-> Snippet_jane],
      [link |-> Link_jane, title |-> Title_of_length(MaxNameLen), snippet |-> Snippet_acme],
      [link |-> Link_maria, title |-> Title_maria, snippet |-> Snippet_acme],
      [link |-> Link_maria, title |-> Title_listing, snippet |-> Snippet_acme],
      [link |-> Link_dir, title |-> Title_of_length(MaxNameLen + 1), snippet |-> Snippet_jane] }

\* no item yet
NoItem == [link |-> "", title |-> <<>>, snippet |-> <<>>]

\* --email-format
Formats == {<<>>, Format_f_last}

\* what one GET on the session can come to
Outcomes == {"ok", "429", "http_error", "network_error", "bad_json"}

\* the path search_google takes for an outcome and, for a 200, n entries under
\* "items": the 429 branch, the except clause, or the return of the items
StatusOf(outcome, n) ==
    CASE outcome = "429" -> "429"
      [] outcome = "ok" -> (IF n = 0 THEN "empty" ELSE "ok")
      [] OTHER -> "error"

----------------------------------------------------------------------------
(* LinkedInHarvester: state and operations *)

\* link in self.found_employees
HasKey(d, k) == \E i \in 1..Len(d) : d[i].key = k

\* mutant: the check for a known link is left out
AlreadyFound_never(d, link) == FALSE

\* if link in self.found_employees: continue
AlreadyFound(d, link) == HasKey(d, link)

\* self.found_employees[k] = v
DictSet(d, k, v) ==
    IF HasKey(d, k)
    THEN [i \in 1..Len(d) |-> IF d[i].key = k THEN [key |-> k, value |-> v] ELSE d[i]]
    ELSE Append(d, [key |-> k, value |-> v])

\* self.found_employees.values()
Values(d) == [i \in 1..Len(d) |-> d[i].value]

Keys(d) == {d[i].key : i \in 1..Len(d)}

ProfilesWord == <<"p", "r", "o", "f", "i", "l", "e", "s">>

\* mutant: "profiles" is looked for in the name as it is, not in name.lower()
Discard_case_sensitive(name) == Len(name) > MaxNameLen \/ Contains(name, ProfilesWord)

\* mutant: a name of 60 characters is discarded too
Discard_from_60(name) == Len(name) >= MaxNameLen \/ Contains(lower(name), ProfilesWord)

\* if len(name) > 60 or "profiles" in name.lower(): continue
Discard(name) == Len(name) > MaxNameLen \/ Contains(lower(name), ProfilesWord)

\* Employee(name=..., linkedin_url=..., role_snippet=..., generated_emails=...)
Employee(fmt, item) ==
    LET name == _clean_name(item.title)
    IN [name |-> name,
        linkedin_url |-> item.link,
        role_snippet |-> Replace(item.snippet, <<"\n">>, <<" ">>),
        generated_emails |-> _generate_emails(fmt, name)]

\* mutant: 0-based offsets
start_zero_based(p) == p * PageSize

\* start = (page * 10) + 1
start(p) == (p * PageSize) + 1

\* mutant: the counter is left as it is
CountRequest_skips(n) == n

\* self.total_requests += 1
CountRequest(n) == n + 1

\* mutant: raise_for_status() outside the try, so an HTTP error status raises
search_google_reraises(outcome, n) ==
    [raised |-> outcome = "http_error", items |-> IF outcome = "ok" THEN n ELSE 0]

\* search_google from the GET on: what it hands harvest() for an outcome of the
\* request and, for a 200, the number n of entries under "items"
search_google(outcome, n) ==
    [raised |-> FALSE, items |-> IF outcome = "ok" THEN n ELSE 0]

\* mutant: an empty page does not end the query
StopPaging_never(n) == FALSE

\* if not results: break
StopPaging(n) == n = 0

\* mutant: the dump leaves out the last value
json_dump_short(d) ==
    [json |-> TRUE, partial |-> FALSE,
     items |-> IF d = <<>> THEN <<>> ELSE Values(SubSeq(d, 1, Len(d) - 1))]

\* json.dump([asdict(e) for e in self.found_employees.values()], fh, ...)
json_dump(d) == [json |-> TRUE, partial |-> FALSE, items |-> Values(d)]

\* open(self.output_file, "w"): the file is cut to nothing
Truncated == [json |-> FALSE, partial |-> FALSE, items |-> <<>>]

\* json.dump cut short: the file holds the text of the dump up to some point
\* after its first k values, and does not parse
json_dump_prefix(d, k) ==
    [json |-> FALSE, partial |-> TRUE, items |-> Values(SubSeq(d, 1, k))]

\* how far the text of the dump in the file goes: 0 for none of it, k + 1 for
\* text that holds the first k values
Flushed(f) == IF f.partial THEN Len(f.items) + 1 ELSE 0

\* no metrics file yet
NoMetrics == [opened |-> FALSE, written |-> FALSE, api_requests |-> 0, profiles_found |-> 0]

\* open(filename, "w") in save_metrics: the file is there and holds no metrics
MetricsTruncated ==
    [opened |-> TRUE, written |-> FALSE, api_requests |-> 0, profiles_found |-> 0]

\* the metrics dict of save_metrics, dumped to the file
save_metrics(requests, d) ==
    [opened |-> TRUE, written |-> TRUE, api_requests |-> requests, profiles_found |-> Len(d)]

\* the next role term, or the end of harvest()
NextQuery(r) ==
    IF r < NumRoles THEN [pc |-> "count", role |-> r + 1, page |-> 0]
    ELSE [pc |-> "done", role |-> 0, page |-> 0]

\* the next page of the query, or the next role term after the last page
NextPage(r, p) ==
    IF p + 1 < MaxPages THEN [pc |-> "count", role |-> r, page |-> p + 1]
    ELSE NextQuery(r)

\* where the item loop goes on with n items left of the page
NextItem(r, p, n) ==
    IF n > 0 THEN [pc |-> "item", role |-> r, page |-> p] ELSE NextPage(r, p)

\* __init__, and main() up to the call of harvest()
Init ==
    /\ email_format \in Formats
    /\ found_employees = <<>>
    /\ total_requests = 0
    /\ results_file = json_dump(<<>>)
    /\ metrics_file = NoMetrics
    /\ pc = "count"
    /\ role = 1
    /\ page = 0
    /\ results = 0
    /\ status = "none"
    /\ issued = 0
    /\ query_starts = <<>>
    /\ queried = <<>>
    /\ passed_links = {}
    /\ last_item = NoItem
    /\ interrupted = FALSE
    /\ full_name = <<>>
    /\ template = <<>>
    /\ emails = <<>>

\* search_google up to the GET: the delay and the request counter
search_google_count ==
    /\ pc = "count"
    /\ total_requests' = CountRequest(total_requests)
    /\ pc' = "send"
    /\ UNCHANGED <<email_format, found_employees, results_file, metrics_file, role, page,
                   results, status, issued, query_starts, queried, passed_links,
                   last_item, interrupted>>
    /\ UNCHANGED emailVars

\* search_google from the GET on, and harvest()'s "if not results: break"
search_google_request ==
    /\ pc = "send"
    /\ \E outcome \in Outcomes, n \in 0..MaxItems :
          LET r == search_google(outcome, n)
              next == IF r.raised THEN [pc |-> "raised", role |-> 0, page |-> 0]
                      ELSE IF StopPaging(r.items) THEN NextQuery(role)
                      ELSE NextItem(role, page, r.items)
          IN /\ outcome = "ok" \/ n = 0
             /\ status' = StatusOf(outcome, n)
             /\ results' = IF r.raised THEN 0 ELSE r.items
             /\ pc' = next.pc
             /\ role' = next.role
             /\ page' = next.page
    /\ issued' = issued + 1
    /\ query_starts' = IF page = 0 THEN <<start(page)>> ELSE Append(query_starts, start(page))
    /\ queried' = IF page = 0 THEN Append(queried, COMMON_ROLES[role]) ELSE queried
    /\ UNCHANGED <<email_format, found_employees, total_requests, results_file,
                   metrics_file, passed_links, last_item, interrupted>>
    /\ UNCHANGED emailVars

\* what harvest() computes from an item alone, for every item and format
Processed ==
    [fmt \in Formats |-> [item \in Items |->
        [discard |-> Discard(_clean_name(item.title)),
         employee |-> Employee(fmt, item)]]]

\* history: the filter as the properties state it, the cleaned title of an item
\* being a name of at most 60 characters without "profiles" in any letter case
PassesFilter ==
    [item \in Items |->
        LET name == _clean_name(item.title)
        IN Len(name) <= MaxNameLen /\ ~Contains(lower(name), ProfilesWord)]

\* one turn of "for item in results", up to the insertion
harvest_item ==
    /\ pc = "item"
    /\ results > 0
    /\ \E item \in Items :
          LET done == Processed[email_format][item]
              skip == AlreadyFound(found_employees, item.link) \/ done.discard
              next == NextItem(role, page, results - 1)
          IN /\ last_item' = item
             /\ passed_links' =
                    IF PassesFilter[item]
                    THEN passed_links \cup {item.link} ELSE passed_links
             /\ found_employees' =
                    IF skip THEN found_employees
                    ELSE DictSet(found_employees, item.link, done.employee)
             /\ pc' = IF skip THEN next.pc ELSE "save"
             /\ role' = IF skip THEN next.role ELSE role
             /\ page' = IF skip THEN next.page ELSE page
    /\ results' = results - 1
    /\ UNCHANGED <<email_format, total_requests, results_file, metrics_file, status,
                   issued, query_starts, queried, interrupted>>
    /\ UNCHANGED emailVars

\* save_results: the file is opened for writing
save_results_open ==
    /\ pc = "save"
    /\ results_file' = Truncated
    /\ pc' = "dump"
    /\ UNCHANGED <<email_format, found_employees, total_requests, metrics_file, role,
                   page, results, status, issued, query_starts, queried, passed_links,
                   last_item, interrupted>>
    /\ UNCHANGED emailVars

\* save_results: json.dump writes piece by piece, and more of the text reaches
\* the file
save_results_write ==
    /\ pc = "dump"
    /\ \E k \in 0..Len(found_employees) :
          /\ k + 1 > Flushed(results_file)
          /\ results_file' = json_dump_prefix(found_employees, k)
    /\ UNCHANGED <<email_format, found_employees, total_requests, metrics_file, pc, role,
                   page, results, status, issued, query_starts, queried, passed_links,
                   last_item, interrupted>>
    /\ UNCHANGED emailVars

\* save_results: the end of the dump, the file is closed, and on to the next item
save_results_dump ==
    /\ pc = "dump"
    /\ results_file' = json_dump(found_employees)
    /\ LET next == NextItem(role, page, results)
       IN /\ pc' = next.pc
          /\ role' = next.role
          /\ page' = next.page
    /\ UNCHANGED <<email_format, found_employees, total_requests, metrics_file, results,
                   status, issued, query_starts, queried, passed_links, last_item,
                   interrupted>>
    /\ UNCHANGED emailVars

\* KeyboardInterrupt raised in search_google once the request has gone out: in
\* the GET before a response (the status stays), or after the response, in the
\* sleep(10) of the 429 branch, in the print of the except clause or on the way
\* back to harvest(); "except Exception" does not catch it
KeyboardInterrupt_in_request ==
    /\ pc = "send"
    /\ \/ status' = status
       \/ \E outcome \in Outcomes, n \in 0..MaxItems :
             /\ outcome = "ok" \/ n = 0
             /\ status' = StatusOf(outcome, n)
    /\ issued' = issued + 1
    /\ query_starts' = IF page = 0 THEN <<start(page)>> ELSE Append(query_starts, start(page))
    /\ queried' = IF page = 0 THEN Append(queried, COMMON_ROLES[role]) ELSE queried
    /\ pc' = "interrupted"
    /\ interrupted' = TRUE
    /\ role' = 0
    /\ page' = 0
    /\ results' = 0
    /\ UNCHANGED <<email_format, found_employees, total_requests, results_file,
                   metrics_file, passed_links, last_item>>
    /\ UNCHANGED emailVars

\* KeyboardInterrupt raised in json.dump of save_results: leaving the with block
\* closes the file, which flushes the text written so far, a part of the dump or
\* all of it
KeyboardInterrupt_in_dump ==
    /\ pc = "dump"
    /\ \/ \E k \in 0..Len(found_employees) :
             /\ k + 1 >= Flushed(results_file)
             /\ results_file' = json_dump_prefix(found_employees, k)
       \/ results_file' = json_dump(found_employees)
    /\ pc' = "interrupted"
    /\ interrupted' = TRUE
    /\ role' = 0
    /\ page' = 0
    /\ results' = 0
    /\ UNCHANGED <<email_format, found_employees, total_requests, metrics_file, status,
                   issued, query_starts, queried, passed_links, last_item>>
    /\ UNCHANGED emailVars

\* KeyboardInterrupt raised elsewhere in the try block of main(), in harvest()
\* or as harvest() returns, and caught in main(); the frame of harvest() and
\* its loop variables are gone
KeyboardInterrupt ==
    /\ pc \in {"count", "send", "item", "save", "dump", "done"}
    /\ pc' = "interrupted"
    /\ interrupted' = TRUE
    /\ role' = 0
    /\ page' = 0
    /\ results' = 0
    /\ UNCHANGED <<email_format, found_employees, total_requests, results_file,
                   metrics_file, status, issued, query_starts, queried, passed_links,
                   last_item>>
    /\ UNCHANGED emailVars

\* KeyboardInterrupt raised while main()'s finally runs save_metrics: before
\* open() (the file is as it was), between open() and the end of json.dump (the
\* file holds no metrics), or after the dump; nothing catches it, it leaves
\* main() and the process exits
KeyboardInterrupt_in_finally ==
    /\ pc \in {"done", "interrupted", "raised"}
    /\ \/ metrics_file' = metrics_file
       \/ metrics_file' = MetricsTruncated
       \/ metrics_file' = save_metrics(total_requests, found_employees)
    /\ pc' = "exit"
    /\ interrupted' = TRUE
    /\ UNCHANGED <<email_format, found_employees, total_requests, results_file, role,
                   page, results, status, issued, query_starts, queried, passed_links,
                   last_item>>
    /\ UNCHANGED emailVars

\* main()'s finally: harvester.save_metrics(args.metrics), then the process exits
main_finally ==
    /\ pc \in {"done", "interrupted", "raised"}
    /\ metrics_file' = save_metrics(total_requests, found_employees)
    /\ pc' = "exit"
    /\ UNCHANGED <<email_format, found_employees, total_requests, results_file, role,
                   page, results, status, issued, query_starts, queried, passed_links,
                   last_item, interrupted>>
    /\ UNCHANGED emailVars

Next ==
    \/ search_google_count
    \/ search_google_request
    \/ harvest_item
    \/ save_results_open
    \/ save_results_write
    \/ save_results_dump
    \/ KeyboardInterrupt
    \/ KeyboardInterrupt_in_dump
    \/ KeyboardInterrupt_in_request
    \/ KeyboardInterrupt_in_finally
    \/ main_finally

Spec == Init /\ [][Next]_vars

----------------------------------------------------------------------------
(* _generate_emails called on its own *)

\* names as _clean_name hands them over: 0 to 4 words, accents, punctuation
Names ==
    { <<>>,
      <<"M", "a", "d", "o", "n", "n", "a">>,
      <<"J", "a", "n", "e", " ", "D", "o", "e">>,
      <<"J", "o", "s", "é", " ", "M", "a", "r", "t", "í", "n", "e", "z">>,
      <<"M", "a", "r", "i", "a", " ", "G", "a", "r", "c", "i", "a", " ", "L", "o", "p", "e", "z">>,
      <<"A", "n", "a", " ", "M", "a", "r", "í", "a", " ", "G", "a", "r", "c", "í", "a", " ", "L", "ó", "p", "e", "z">>,
      <<"A", "n", "a", " ", "G", "a", "r", "c", "i", "a", " ", "G", "a", "r", "c", "i", "a">>,
      <<"A", "n", "a", " ", "G", "i", "l", " ", "G", "o", "m", "e", "z">>,
      <<"J", ".", " ", "D", "o", "e">>,
      <<"J", "e", "a", "n", "-", "L", "u", "c", " ", "P", "i", "c", "a", "r", "d">>,
      <<"D", "r", ".", " ", "<U+2013>", " ", "X">>,
      <<"M", "a", "r", "í", "a", " ", " ", "d", "e", " ", "l", "a", " ", "O">>,
      <<" ", "Ñ", "u", "\t", "P", "é", "r", "e", "z", "\n">>,
      <<"O", "'", "N", "e", "i", "l", " ", "3", "r", "d">>,
      <<"@", "@", " ", "!", "!">>,
      <<"A", "n", "a", " ", "G", "i", "l", " ", "G", "i", "l", " ", "L", "o", "p", "e", "z">>,
      <<"A", "n", "a", "\r", "G", "i", "l", "\f", "G", "o", "m", "e", "z">> }

\* e-mail templates as sequences of parts, a part a placeholder or literal text
Templates ==
    { <<>>,
      <<PH_first, <<".">>, PH_last, <<"@", "e", "x", "a", "m", "p", "l", "e", ".", "c", "o", "m">>>>,
      <<PH_f, PH_last, <<"@", "e", "x", "a", "m", "p", "l", "e", ".", "c", "o", "m">>>>,
      <<PH_first, <<"@", "e", "x", "a", "m", "p", "l", "e", ".", "c", "o", "m">>>>,
      <<PH_f, <<".">>, PH_l, <<"@", "x", ".", "i", "o">>>>,
      <<PH_last, PH_f, <<"@", "x", ".", "i", "o">>>>,
      <<PH_first, PH_first, <<"_">>, PH_l, <<"@", "x", ".", "i", "o">>>>,
      <<<<"i", "n", "f", "o", "@", "x", ".", "i", "o">>>> }

InitEmail ==
    /\ full_name \in Names
    /\ template \in Templates
    /\ email_format = Flatten(template)
    /\ emails = <<>>
    /\ pc = "call"
    /\ found_employees = <<>>
    /\ total_requests = 0
    /\ results_file = json_dump(<<>>)
    /\ metrics_file = NoMetrics
    /\ role = 0
    /\ page = 0
    /\ results = 0
    /\ status = "none"
    /\ issued = 0
    /\ query_starts = <<>>
    /\ queried = <<>>
    /\ passed_links = {}
    /\ last_item = NoItem
    /\ interrupted = FALSE

\* emails = self._generate_emails(full_name)
call_generate_emails ==
    /\ pc = "call"
    /\ emails' = _generate_emails(email_format, full_name)
    /\ pc' = "return"
    /\ UNCHANGED <<email_format, found_employees, total_requests, results_file,
                   metrics_file, role, page, results, status, issued, query_starts,
                   queried, passed_links, last_item, interrupted, full_name, template>>

NextEmail == call_generate_emails

SpecEmail == InitEmail /\ [][NextEmail]_vars

----------------------------------------------------------------------------
(* Properties *)

\* the employees of the results file
InFile == Range(results_file.items)

\* the employees of the result set that the results file does not hold
Missing == {e \in Range(Values(found_employees)) : e \notin InFile}

\* the most recently inserted employee
LastInserted ==
    IF found_employees = <<>> THEN {}
    ELSE {found_employees[Len(found_employees)].value}

\* a step of the item loop
ItemStep == pc = "item" /\ pc' # "interrupted" /\ results' = results - 1

\* a step that sends a request
RequestStep == issued' = issued + 1

UniqueKeys ==
    \A i, j \in 1..Len(found_employees) :
        found_employees[i].key = found_employees[j].key => i = j

KeyIsUrl ==
    \A i \in 1..Len(found_employees) :
        found_employees[i].value.linkedin_url = found_employees[i].key

\* C1: the result set holds at most one Employee per profile URL, each stored
\* under its own linkedin_url, and an item whose link is already a key leaves
\* the result set as it was, whatever its title and snippet.
C1_Dedup ==
    /\ [](UniqueKeys /\ KeyIsUrl)
    /\ [][(ItemStep /\ HasKey(found_employees, last_item'.link))
            => found_employees' = found_employees]_vars

\* C1 witness: a repeated link came with another title, and the entry stayed.
C1_Witness ==
    /\ last_item.link = Link_jane
    /\ last_item.title = Title_of_length(MaxNameLen)
    /\ Len(found_employees) = 1
    /\ found_employees[1].key = Link_jane
    /\ found_employees[1].value.name = _clean_name(Title_jane)

\* C2: after an interrupt, at exit, the metrics file and the results file are
\* written and the results file holds every Employee of the result set.
C2_InterruptPersists ==
    (pc = "exit" /\ interrupted)
        => /\ metrics_file.written
           /\ results_file.json
           /\ Missing = {}

\* C3: a request that follows a response of zero items (empty, 429, failure) is
\* the request for start 1 of the next role term, never a later page of the
\* same query, and no role term is taken up a second time.
C3_PaginationStops ==
    /\ [](\A i, j \in 1..Len(queried) : queried[i] = queried[j] => i = j)
    /\ [][(RequestStep /\ status \in {"empty", "429", "error"})
            => /\ query_starts' = <<1>>
               /\ Len(queried') = Len(queried) + 1
               /\ queried'[Len(queried')] = COMMON_ROLES[Len(queried) + 1]]_vars

\* C3 witness: page 2 of the first query came back without items and the next
\* request was page 1 of the second role term.
C3_Witness ==
    /\ issued = 3
    /\ Len(queried) = 2
    /\ query_starts = <<1>>
    /\ found_employees # <<>>

\* C4: no Employee of the result set has a name longer than 60 characters or
\* one with "profiles" in any letter case, and an item whose cleaned name is
\* discarded for that leaves the result set and the results file as they were.
C4_DiscardFilter ==
    /\ [](\A i \in 1..Len(found_employees) :
            LET name == found_employees[i].value.name
            IN Len(name) <= 60 /\ ~Contains(lower(name), ProfilesWord))
    /\ [][(ItemStep /\ ~PassesFilter[last_item'])
            => /\ found_employees' = found_employees
               /\ results_file' = results_file]_vars

\* C4 witness: the 61-letter name was discarded while the 60-letter one is held.
C4_Witness ==
    /\ last_item.title = Title_of_length(MaxNameLen + 1)
    /\ \E i \in 1..Len(found_employees) : Len(found_employees[i].value.name) = MaxNameLen
    /\ Link_dir \notin Keys(found_employees)

\* C5: a failed request (429, HTTP error, network exception, bad body) hands
\* harvest() no items and raises nothing; unless interrupted, harvest() goes on
\* with the next role term, and a run that is not interrupted queries every
\* role term.
C5_FailuresNotFatal ==
    /\ [](pc # "raised")
    /\ []((pc = "done" \/ (pc = "exit" /\ ~interrupted)) => queried = COMMON_ROLES)
    /\ [][(RequestStep /\ pc' # "interrupted" /\ status' \in {"429", "error"})
            => /\ results' = 0
               /\ IF role < NumRoles
                  THEN pc' = "count" /\ role' = role + 1 /\ page' = 0
                  ELSE pc' = "done"]_vars

\* C5 witness: the request of the first role term failed and the run is about
\* to send the request of the second.
C5_Witness ==
    /\ status = "error"
    /\ pc = "send"
    /\ role = 2
    /\ issued = 1

\* C6 as claimed: a written metrics file reports the number of requests sent.
C6_Original == metrics_file.written => metrics_file.api_requests = issued

\* C6: a written metrics file reports as api_requests the number of
\* search_google calls that reached the counter; that is the number of requests
\* sent in a run that is not interrupted, and that number or one more after an
\* interrupt, the counter being raised before the request is sent; a run that
\* is not interrupted ends with the metrics file written.
C6_RequestCount ==
    /\ metrics_file.written
           => /\ metrics_file.api_requests = total_requests
              /\ metrics_file.api_requests \in {issued, issued + 1}
              /\ (~interrupted => metrics_file.api_requests = issued)
    /\ (pc = "exit" /\ ~interrupted) => metrics_file.written

\* C6 witness: an interrupt between the count and the request.
C6_Witness ==
    /\ pc = "exit"
    /\ interrupted
    /\ issued >= 2
    /\ status = "429"
    /\ metrics_file.written
    /\ metrics_file.api_requests = issued + 1

\* C7: at the end of a run that is not interrupted the keys of the result set
\* are the links of the returned items whose cleaned title passes the filter,
\* and profiles_found and the length of the results file are their number.
C7_FinalCount ==
    (pc = "exit" /\ ~interrupted)
        => /\ Keys(found_employees) = passed_links
           /\ metrics_file.profiles_found = Cardinality(passed_links)
           /\ results_file.json
           /\ Len(results_file.items) = Cardinality(passed_links)
           /\ {e.linkedin_url : e \in InFile} = passed_links

\* C7 witness: one page of items and one empty page for one term, one empty
\* page for every other, and the items hold two links that pass.
C7_Witness ==
    /\ pc = "exit"
    /\ ~interrupted
    /\ issued = NumRoles + 1
    /\ status = "empty"
    /\ passed_links = {Link_jane, Link_maria}
    /\ metrics_file.profiles_found = 2

\* the address a template gives for a first name and a surname
Address(tpl, first, last) ==
    Flatten([i \in 1..Len(tpl) |->
        CASE tpl[i] = PH_first -> first
          [] tpl[i] = PH_last -> last
          [] tpl[i] = PH_f -> <<first[1]>>
          [] tpl[i] = PH_l -> <<last[1]>>
          [] OTHER -> tpl[i]])

\* C8: no template or fewer than 2 tokens, no address; 2 tokens, the address of
\* first = token 1, last = token 2; 3 or more, the addresses of last = token 2
\* and last = token 3 in that order, once if they are the same.
C8_MultiCandidate ==
    pc = "return"
        => LET tokens == name_parts(full_name)
               a == Address(template, tokens[1], tokens[2])
               b == Address(template, tokens[1], tokens[3])
           IN emails = IF template = <<>> \/ Len(tokens) < 2 THEN <<>>
                       ELSE IF Len(tokens) = 2 THEN <<a>>
                       ELSE IF a = b THEN <<a>>
                       ELSE <<a, b>>

\* C8 witness: a name of four tokens gave two addresses.
C8_Witness ==
    /\ pc = "return"
    /\ Len(name_parts(full_name)) = 4
    /\ Len(emails) = 2

\* the steps one dump can take at most
DumpSteps == Cardinality({item.link : item \in Items}) + 2

\* what is left of the run up to the next change of position
Position ==
    LET width == 3 * MaxItems + 3
        rank == CASE pc = "count" -> 3 * MaxItems + 2
                  [] pc = "send" -> 3 * MaxItems + 1
                  [] pc = "item" -> 3 * results
                  [] pc = "save" -> 3 * results + 2
                  [] pc = "dump" -> 3 * results + 1
                  [] OTHER -> 0
    IN CASE pc = "exit" -> 0
         [] pc \in {"interrupted", "raised"} -> 1
         [] pc = "done" -> 2
         [] OTHER -> ((NumRoles - role) * MaxPages + (MaxPages - page)) * width + rank

\* what is left of the run: it falls with every step
Measure ==
    DumpSteps * Position
        + (IF pc = "dump" THEN DumpSteps - 1 - Flushed(results_file) ELSE 0)

\* C9: the start offsets sent for a query are a prefix of 1, 11, ..., 91 in that
\* order; the role terms are queried in list order, all of them in a run that
\* is not interrupted; no more than 10 requests per role term are sent, and
\* every step brings the run nearer to its end.
C9_Pagination ==
    /\ [](/\ Len(query_starts) <= 10
          /\ \A i \in 1..Len(query_starts) : query_starts[i] = 10 * (i - 1) + 1
          /\ Len(queried) <= NumRoles
          /\ queried = SubSeq(COMMON_ROLES, 1, Len(queried))
          /\ issued <= 10 * NumRoles
          /\ ((pc = "exit" /\ ~interrupted) => queried = COMMON_ROLES))
    /\ [][Measure' < Measure]_vars

\* C9 witness: every role term was queried for all ten pages.
C9_Witness ==
    /\ pc = "exit"
    /\ issued = 10 * NumRoles
    /\ query_starts[10] = 91

\* C10 as claimed: at every request the results file is the result set, and at
\* any moment the file misses at most the most recently inserted Employee.
C10_Original ==
    /\ pc = "send" => (results_file.json /\ results_file.items = Values(found_employees))
    /\ Missing \subseteq LastInserted

\* C10: at every request the results file is the result set; a file that holds
\* a dump misses at most the most recently inserted Employee; the file holds a
\* dump except while save_results rewrites it and after an interrupt in that
\* rewrite, when it is empty or holds an unfinished part of the dump of the
\* result set, which does not parse.
C10_PerInsertion ==
    /\ pc = "send" => (results_file.json /\ results_file.items = Values(found_employees))
    /\ results_file.json => (~results_file.partial /\ Missing \subseteq LastInserted)
    /\ ~results_file.json
           => /\ pc = "dump" \/ interrupted
              /\ Len(results_file.items) <= Len(found_employees)
              /\ results_file.items =
                     SubSeq(Values(found_employees), 1, Len(results_file.items))
              /\ (~results_file.partial => results_file.items = <<>>)

\* C10 witness: the second Employee is in the result set and not yet in the file.
C10_Witness ==
    /\ pc = "save"
    /\ Len(found_employees) = 2
    /\ results_file.json
    /\ Missing = LastInserted

====
